---- MODULE Spec2Model ----
(***************************************************************************)
(* CrudApp (Deliverable4/crud_app.py and Deliverable5/crud_app.py): a Tk   *)
(* form over the user_account table of the ebay_db schema, with a manually *)
(* ordered cascade on delete and, in Deliverable5, a panel of canned       *)
(* read-only queries.  Deliverable5 contains every handler of Deliverable4 *)
(* unchanged and adds run_query, so the model follows Deliverable5; the    *)
(* behaviours of Deliverable4 are those in which RunQuery never fires.     *)
(*                                                                         *)
(* Texts (widget contents, list lines, column values) are sequences of     *)
(* one-character strings, so that strip, split, int, float and the format  *)
(* of a list line are computed and not assumed.                            *)
(***************************************************************************)
EXTENDS Integers, Sequences, FiniteSets, TLC

(***************************************************************************)
(* Bounds of the model.                                                    *)
(***************************************************************************)
\* user_id values handed out by the user_account sequence stay <= MaxId
MaxId == 2
\* rows of user_account in the initial database: user_id 1..InitUsers
InitUsers == 1
\* listing_id values of the initial databases of SpecCascade: 1..MaxListing
MaxListing == 1
\* rows in each of transaction, feedback, bid and user_listing_watch in the
\* initial databases of SpecCascade: at most MaxRows, with ids 1..MaxRows
MaxRows == 1

(***************************************************************************)
(* Python text primitives.                                                 *)
(***************************************************************************)
\* An optional value is a set with at most one element: None is the empty set
\* and Some(x) holds x.  int and float return None where Python raises ValueError.
None == {}

Some(x) == {x}

The(o) == CHOOSE x \in o : TRUE

Digits == {"0", "1", "2", "3", "4", "5", "6", "7", "8", "9"}

DigitVal(c) ==
    CASE c = "0" -> 0 [] c = "1" -> 1 [] c = "2" -> 2 [] c = "3" -> 3
      [] c = "4" -> 4 [] c = "5" -> 5 [] c = "6" -> 6 [] c = "7" -> 7
      [] c = "8" -> 8 [] c = "9" -> 9

DigitChar(d) ==
    CASE d = 0 -> "0" [] d = 1 -> "1" [] d = 2 -> "2" [] d = 3 -> "3"
      [] d = 4 -> "4" [] d = 5 -> "5" [] d = 6 -> "6" [] d = 7 -> "7"
      [] d = 8 -> "8" [] d = 9 -> "9"

\* str.strip(chars): drop leading and trailing characters that are in chars
RECURSIVE LStrip(_, _)
LStrip(t, chars) ==
    IF t # <<>> /\ Head(t) \in chars THEN LStrip(Tail(t), chars) ELSE t

RECURSIVE RStrip(_, _)
RStrip(t, chars) ==
    IF t # <<>> /\ t[Len(t)] \in chars
    THEN RStrip(SubSeq(t, 1, Len(t) - 1), chars)
    ELSE t

StripChars(t, chars) == RStrip(LStrip(t, chars), chars)

\* str.strip(): whitespace
Whitespace == {" "}

strip(t) == StripChars(t, Whitespace)

\* text.split(sep)[0]: the text before the first sep, the whole text if none
RECURSIVE SplitFirst(_, _)
SplitFirst(t, sep) ==
    IF t = <<>> \/ Head(t) = sep
    THEN <<>>
    ELSE <<Head(t)>> \o SplitFirst(Tail(t), sep)

AllDigits(t) == t # <<>> /\ \A i \in 1..Len(t) : t[i] \in Digits

RECURSIVE DigitsValue(_)
DigitsValue(t) ==
    IF t = <<>> THEN 0
    ELSE 10 * DigitsValue(SubSeq(t, 1, Len(t) - 1)) + DigitVal(t[Len(t)])

\* the unsigned decimal text of a natural number
RECURSIVE NatText(_)
NatText(n) ==
    IF n < 10 THEN <<DigitChar(n)>>
    ELSE NatText(n \div 10) \o <<DigitChar(n % 10)>>

\* str(i) of an int
IntText(i) == IF i < 0 THEN <<"-">> \o NatText(0 - i) ELSE NatText(i)

\* int(text): surrounding whitespace and one sign are accepted; ValueError
\* (modelled as None) for anything else
IntBody(t) == IF t # <<>> /\ Head(t) \in {"-", "+"} THEN Tail(t) ELSE t

int(t) ==
    LET s == strip(t)
        b == IntBody(s)
    IN  IF ~AllDigits(b) THEN None
        ELSE IF s # <<>> /\ Head(s) = "-" THEN Some(0 - DigitsValue(b))
        ELSE Some(DigitsValue(b))

\* format(text, width): left-aligned, padded with spaces to at least width
RECURSIVE Spaces(_)
Spaces(n) == IF n <= 0 THEN <<>> ELSE <<" ">> \o Spaces(n - 1)

Pad(t, width) == t \o Spaces(width - Len(t))

(***************************************************************************)
(* float(text).  A finite float is the exact decimal m / 10^k, kept in     *)
(* lowest terms of ten (4.50 and 4.5 are the same float); the texts of the *)
(* model have few digits, so the double nearest to the decimal compares    *)
(* with 0 and 5 exactly as the decimal does.  nan and inf parse without a  *)
(* ValueError, as in Python.  Exponents and digit underscores are not in   *)
(* the alphabet of the model.                                              *)
(***************************************************************************)
NaN == [kind |-> "nan", m |-> 0, k |-> 0]

Inf(neg) == [kind |-> "inf", m |-> IF neg THEN 0 - 1 ELSE 1, k |-> 0]

RECURSIVE Normal(_, _)
Normal(m, k) ==
    IF k > 0 /\ m % 10 = 0 THEN Normal(m \div 10, k - 1)
    ELSE [kind |-> "num", m |-> m, k |-> k]

RECURSIVE Pow10(_)
Pow10(k) == IF k = 0 THEN 1 ELSE 10 * Pow10(k - 1)

\* the position of the first "." of t, 0 if there is none
RECURSIVE DotAt(_, _)
DotAt(t, i) ==
    IF i > Len(t) THEN 0 ELSE IF t[i] = "." THEN i ELSE DotAt(t, i + 1)

\* an unsigned decimal: digits, digits "." [digits] or "." digits
Decimal(b, neg) ==
    LET d == DotAt(b, 1)
        ip == IF d = 0 THEN b ELSE SubSeq(b, 1, d - 1)
        fp == IF d = 0 THEN <<>> ELSE SubSeq(b, d + 1, Len(b))
        ok == /\ ip \o fp # <<>>
              /\ \A i \in 1..Len(ip) : ip[i] \in Digits
              /\ \A i \in 1..Len(fp) : fp[i] \in Digits
        mag == DigitsValue(ip \o fp)
    IN  IF ~ok THEN None
        ELSE Some(Normal(IF neg THEN 0 - mag ELSE mag, Len(fp)))

\* The argument of float is a str or an int: <<"str", text>> or <<"int", i>>.
Str(t) == <<"str", t>>

PyInt(i) == <<"int", i>>

float(x) ==
    IF x[1] = "int" THEN Some(Normal(x[2], 0))
    ELSE LET s == strip(x[2])
             neg == s # <<>> /\ Head(s) = "-"
             b == IntBody(s)
         IN  IF b = <<"n", "a", "n">> THEN Some(NaN)
             ELSE IF b = <<"i", "n", "f">> THEN Some(Inf(neg))
             ELSE Decimal(b, neg)

\* mutant: the lower bound is forgotten
InRangeUpperOnly(v) == v.kind # "nan" /\ v.m <= 5 * Pow10(v.k)

\* 0 <= v <= 5 as Python evaluates it: every comparison with nan is False
InRange(v) ==
    /\ v.kind = "num"
    /\ 0 <= v.m
    /\ v.m <= 5 * Pow10(v.k)

\* str(v) of a finite float: "4.5", "5.0", "0.25".  (The type of the rating
\* column is fixed by the schema; the list line and the form show the same
\* text of it either way.)
FracText(f, k) == [i \in 1..k |-> DigitChar((f \div Pow10(k - i)) % 10)]

FloatText(v) ==
    LET a == IF v.m < 0 THEN 0 - v.m ELSE v.m
        sign == IF v.m < 0 THEN <<"-">> ELSE <<>>
    IN  sign \o NatText(a \div Pow10(v.k)) \o <<".">>
             \o (IF v.k = 0 THEN <<"0">> ELSE FracText(a % Pow10(v.k), v.k))

(***************************************************************************)
(* The database: six tables of ebay_db.  A row is a record, a table a set  *)
(* of rows.  Only the key and reference columns the application names are  *)
(* kept for the five dependent tables.                                     *)
(***************************************************************************)
UserIds(d) == {u.user_id : u \in d.user_account}

ListingIds(d) == {l.listing_id : l \in d.listing}

TransactionIds(d) == {t.transaction_id : t \in d.transaction}

\* The foreign keys among the six tables: every reference names a row that
\* exists.  The schema is not part of the application; the statements below
\* are modelled without its enforcement.
RefIntegrity(d) ==
    /\ \A l \in d.listing : l.seller_id \in UserIds(d)
    /\ \A t \in d.transaction :
          /\ t.buyer_id \in UserIds(d)
          /\ t.seller_id \in UserIds(d)
          /\ t.listing_id \in ListingIds(d)
    /\ \A f \in d.feedback :
          /\ f.author_user_id \in UserIds(d)
          /\ f.target_user_id \in UserIds(d)
          /\ f.transaction_id \in TransactionIds(d)
    /\ \A b \in d.bid : b.user_id \in UserIds(d) /\ b.listing_id \in ListingIds(d)
    /\ \A w \in d.user_listing_watch :
          w.user_id \in UserIds(d) /\ w.listing_id \in ListingIds(d)

(***************************************************************************)
(* The SQL statements of the application, each as the table contents it    *)
(* leaves.  x = ANY(array) is true when a non-NULL element equals x; the   *)
(* array [None] of delete therefore matches nothing.                       *)
(***************************************************************************)
\* SELECT listing_id FROM listing WHERE seller_id = uid
SelectListingIds(d, uid) == {l.listing_id : l \in {m \in d.listing : m.seller_id = uid}}

\* listing_array = listing_ids if listing_ids else [None]
ListingArray(listing_ids) ==
    IF listing_ids = {} THEN {None} ELSE {Some(i) : i \in listing_ids}

EqAny(x, array) == Some(x) \in array

\* SELECT transaction_id FROM transaction WHERE buyer_id = uid OR seller_id = uid
\*   OR listing_id = ANY(array)
TransactionsOf(d, uid, array) ==
    {t \in d.transaction :
        t.buyer_id = uid \/ t.seller_id = uid \/ EqAny(t.listing_id, array)}

\* mutant: the feedback tied to the deleted transactions is forgotten
DeleteFeedbackDirectOnly(d, uid, array) ==
    [d EXCEPT !.feedback =
        {f \in @ : ~(f.author_user_id = uid \/ f.target_user_id = uid)}]

DeleteFeedback(d, uid, array) ==
    LET tids == {t.transaction_id : t \in TransactionsOf(d, uid, array)}
    IN  [d EXCEPT !.feedback =
            {f \in @ : ~(\/ f.author_user_id = uid
                         \/ f.target_user_id = uid
                         \/ f.transaction_id \in tids)}]

DeleteTransaction(d, uid, array) ==
    [d EXCEPT !.transaction = @ \ TransactionsOf(d, uid, array)]

\* mutant: the bids on the user's listings are forgotten
DeleteBidByUserOnly(d, uid, array) ==
    [d EXCEPT !.bid = {b \in @ : b.user_id # uid}]

DeleteBid(d, uid, array) ==
    [d EXCEPT !.bid =
        {b \in @ : ~(b.user_id = uid \/ EqAny(b.listing_id, array))}]

DeleteWatch(d, uid, array) ==
    [d EXCEPT !.user_listing_watch =
        {w \in @ : ~(w.user_id = uid \/ EqAny(w.listing_id, array))}]

\* mutant: the WHERE clause of the delete of listings is missing
DeleteListingNoWhere(d, uid, array) == [d EXCEPT !.listing = {}]

DeleteListing(d, uid, array) ==
    [d EXCEPT !.listing = {l \in @ : l.seller_id # uid}]

DeleteUserAccount(d, uid, array) ==
    [d EXCEPT !.user_account = {u \in @ : u.user_id # uid}]

\* the statements of delete in the order the handler issues them, after the
\* listing lookup
\* mutant: the listings are deleted before the rows that name them
DeleteOrderListingFirst ==
    <<"listing", "feedback", "transaction", "bid", "user_listing_watch",
      "user_account">>

DeleteOrder ==
    <<"feedback", "transaction", "bid", "user_listing_watch", "listing",
      "user_account">>

DeleteFrom(table, d, uid, array) ==
    CASE table = "feedback" -> DeleteFeedback(d, uid, array)
      [] table = "transaction" -> DeleteTransaction(d, uid, array)
      [] table = "bid" -> DeleteBid(d, uid, array)
      [] table = "user_listing_watch" -> DeleteWatch(d, uid, array)
      [] table = "listing" -> DeleteListing(d, uid, array)
      [] table = "user_account" -> DeleteUserAccount(d, uid, array)

\* INSERT INTO user_account (...) VALUES (...) RETURNING user_id
InsertUser(d, new_id, username, email, user_type, account_status, rating_val) ==
    [d EXCEPT !.user_account = @ \cup
        {[user_id |-> new_id, username |-> username, email |-> email,
          user_type |-> user_type, account_status |-> account_status,
          rating |-> rating_val]}]

\* mutant: the WHERE clause is missing
UpdateUserNoWhere(d, uid, username, email, user_type, account_status, rating_val) ==
    [d EXCEPT !.user_account =
        {[u EXCEPT !.username = username, !.email = email,
                   !.user_type = user_type, !.account_status = account_status,
                   !.rating = rating_val] : u \in @}]

\* UPDATE user_account SET ... WHERE user_id = uid
UpdateUser(d, uid, username, email, user_type, account_status, rating_val) ==
    [d EXCEPT !.user_account =
        {IF u.user_id = uid
         THEN [u EXCEPT !.username = username, !.email = email,
                        !.user_type = user_type,
                        !.account_status = account_status,
                        !.rating = rating_val]
         ELSE u : u \in @}]

\* SELECT ... FROM user_account ORDER BY user_id
RECURSIVE OrderByUserId(_)
OrderByUserId(rows) ==
    IF rows = {} THEN <<>>
    ELSE LET r == CHOOSE x \in rows : \A y \in rows : x.user_id <= y.user_id
         IN  <<r>> \o OrderByUserId(rows \ {r})

\* SELECT ... FROM user_account WHERE user_id = uid; fetchone()
FetchUser(d, uid) == {u \in d.user_account : u.user_id = uid}

(***************************************************************************)
(* The application state.                                                  *)
(***************************************************************************)
VARIABLES
    db,           \* the committed contents of the six tables
    seq,          \* next value of the user_account.user_id sequence
    conn,         \* self.conn: "READY", "BEGIN" (in a transaction), "INERROR"
    selected_id,  \* self.selected_id: None or Some(user_id)
    listbox,      \* the lines of self.listbox
    form,         \* the texts of the five Entry widgets
    output,       \* self.output of Deliverable5: "", "Result" or "Error", what
                  \* follows the header of the query that ran last
    last          \* the handler that ran last: dialog shown, exception that
                  \* left the handler, statements sent on the connection

vars == <<db, seq, conn, selected_id, listbox, form, output, last>>

\* widths of the format specifications of a list line
UsernameWidth == 12
EmailWidth == 25
UserTypeWidth == 6
AccountStatusWidth == 9

Buyer == <<"b", "u", "y", "e", "r">>
Seller == <<"s", "e", "l", "l", "e", "r">>
Both == <<"b", "o", "t", "h">>
Active == <<"a", "c", "t", "i", "v", "e">>
Suspended == <<"s", "u", "s", "p", "e", "n", "d", "e", "d">>
Closed == <<"c", "l", "o", "s", "e", "d">>

UserTypes == {Buyer, Seller, Both}

AccountStatuses == {Active, Suspended, Closed}

Bar == <<" ", "|", " ">>

\* f"[{user_id}] {username:12} | {email:25} | {user_type:6} | {account_status:9} | rating={rating}"
Display(r) ==
    <<"[">> \o IntText(r.user_id) \o <<"]", " ">>
        \o Pad(r.username, UsernameWidth) \o Bar
        \o Pad(r.email, EmailWidth) \o Bar
        \o Pad(r.user_type, UserTypeWidth) \o Bar
        \o Pad(r.account_status, AccountStatusWidth) \o Bar
        \o <<"r", "a", "t", "i", "n", "g", "=">> \o FloatText(r.rating)

Render(d) ==
    LET rows == OrderByUserId(d.user_account)
    IN  [i \in 1..Len(rows) |-> Display(rows[i])]

\* _clear_form
ClearForm ==
    [username |-> <<>>, email |-> <<>>, user_type |-> <<>>,
     account_status |-> <<>>, rating |-> <<>>]

\* the five Entry widgets after on_select has inserted a row
FormOf(row) ==
    [username |-> row.username, email |-> row.email, user_type |-> row.user_type,
     account_status |-> row.account_status, rating |-> FloatText(row.rating)]

NoDialog == [title |-> "", text |-> "", id |-> None]

Dialog(title, text, id) == [title |-> title, text |-> text, id |-> id]

\* op: the handler; arg: its input (the selected index, the query key, the
\* answer to the confirmation); dialog: the last message box it showed;
\* raised: the exception that left it; sql: what it sent on the connection
Event(op, arg, dialog, raised, sql) ==
    [op |-> op, arg |-> arg, dialog |-> dialog, raised |-> raised, sql |-> sql]

\* a statement sent on the connection: verb, table, "ok" or the error raised
Stmt(verb, table, result) == <<verb, table, result>>

Ok == "ok"

SelectUsers(result) == Stmt("SELECT", "user_account", result)

Commit == Stmt("COMMIT", "", Ok)

Rollback == Stmt("ROLLBACK", "", Ok)

\* psycopg2: a statement sent while the transaction is aborted raises
\* InFailedSqlTransaction and the transaction stays aborted until a rollback
InFailed == "InFailedSqlTransaction"

(***************************************************************************)
(* refresh: the list is emptied first; the SELECT runs outside any         *)
(* "with self.conn", so an exception leaves the handler after the list was *)
(* emptied and before selected_id and the form are reset, and nothing      *)
(* ends the transaction the SELECT opened.                                 *)
(***************************************************************************)
\* mutant: refresh reloads the list and keeps the selection
refreshKeepsSelection(d, c, sel, f) ==
    IF c = "INERROR"
    THEN [listbox |-> <<>>, selected_id |-> sel, form |-> f, conn |-> c,
          raised |-> InFailed, sql |-> <<SelectUsers(InFailed)>>]
    ELSE [listbox |-> Render(d), selected_id |-> sel, form |-> f,
          conn |-> "BEGIN", raised |-> "", sql |-> <<SelectUsers(Ok)>>]

refresh(d, c, sel, f) ==
    IF c = "INERROR"
    THEN [listbox |-> <<>>, selected_id |-> sel, form |-> f, conn |-> c,
          raised |-> InFailed, sql |-> <<SelectUsers(InFailed)>>]
    ELSE [listbox |-> Render(d), selected_id |-> None, form |-> ClearForm,
          conn |-> "BEGIN", raised |-> "", sql |-> <<SelectUsers(Ok)>>]

Refresh ==
    LET r == refresh(db, conn, selected_id, form)
    IN  /\ listbox' = r.listbox
        /\ selected_id' = r.selected_id
        /\ form' = r.form
        /\ conn' = r.conn
        /\ last' = Event("refresh", "", NoDialog, r.raised, r.sql)
        /\ UNCHANGED <<db, seq, output>>

(***************************************************************************)
(* on_select: sel is the index curselection() returns, 0 for an empty      *)
(* selection.                                                              *)
(***************************************************************************)
\* int(text.split("]")[0].strip("["))
ParseId(text) == int(StripChars(SplitFirst(text, "]"), {"["}))

\* mutant: the id selected before stays when the line does not parse
SelectIgnoredKeepsId(sel) ==
    /\ last' = Event("on_select", sel, NoDialog, "", <<>>)
    /\ UNCHANGED <<db, seq, conn, selected_id, listbox, form, output>>

\* except Exception: self.selected_id = None; return
SelectIgnored(sel) ==
    /\ selected_id' = None
    /\ last' = Event("on_select", sel, NoDialog, "", <<>>)
    /\ UNCHANGED <<db, seq, conn, listbox, form, output>>

OnSelect(sel) ==
    IF sel = 0
    THEN /\ last' = Event("on_select", sel, NoDialog, "", <<>>)
         /\ UNCHANGED <<db, seq, conn, selected_id, listbox, form, output>>
    ELSE LET id == ParseId(listbox[sel])
         IN  IF id = None
             THEN SelectIgnored(sel)
             ELSE /\ selected_id' = id
                  /\ IF conn = "INERROR"
                     THEN /\ last' = Event("on_select", sel, NoDialog, InFailed,
                                           <<SelectUsers(InFailed)>>)
                          /\ UNCHANGED <<conn, form>>
                     ELSE LET row == FetchUser(db, The(id))
                          IN  /\ form' = IF row = {} THEN form ELSE FormOf(The(row))
                              /\ conn' = "BEGIN"
                              /\ last' = Event("on_select", sel, NoDialog, "",
                                               <<SelectUsers(Ok)>>)
                  /\ UNCHANGED <<db, seq, listbox, output>>

(***************************************************************************)
(* create and update read the form the same way and validate it the same   *)
(* way.                                                                    *)
(***************************************************************************)
\* x.strip() or default
OrDefault(t, default) == IF strip(t) = <<>> THEN default ELSE strip(t)

\* the five locals username, email, user_type, account_status, rating
Fields(f) ==
    [username |-> strip(f.username),
     email |-> strip(f.email),
     user_type |-> OrDefault(f.user_type, Buyer),
     account_status |-> OrDefault(f.account_status, Active),
     rating |-> IF strip(f.rating) = <<>> THEN PyInt(0) ELSE Str(strip(f.rating))]

\* mutant: the check of account_status is left out
ValidationErrorNoStatus(v) ==
    IF v.username = <<>> \/ v.email = <<>>
    THEN "Username and email are required."
    ELSE IF v.user_type \notin UserTypes
    THEN "User type must be buyer, seller, or both."
    ELSE IF float(v.rating) = None
    THEN "Rating must be numeric."
    ELSE IF ~InRange(The(float(v.rating)))
    THEN "Rating must be between 0 and 5."
    ELSE ""

\* the text of the showerror that ends the handler, "" when the form is valid
ValidationError(v) ==
    IF v.username = <<>> \/ v.email = <<>>
    THEN "Username and email are required."
    ELSE IF v.user_type \notin UserTypes
    THEN "User type must be buyer, seller, or both."
    ELSE IF v.account_status \notin AccountStatuses
    THEN "Status must be active, suspended, or closed."
    ELSE IF float(v.rating) = None
    THEN "Rating must be numeric."
    ELSE IF ~InRange(The(float(v.rating)))
    THEN "Rating must be between 0 and 5."
    ELSE ""

\* "if not self.selected_id": None and 0 are both false
NotSelected(sel) == sel = None \/ sel = Some(0)

\* mutant: the error path reloads the list, which resets selection and form
RejectedWithRefresh(op, text) ==
    LET v == refresh(db, conn, selected_id, form)
    IN  /\ last' = Event(op, "", Dialog("Error", text, None), "", v.sql)
        /\ listbox' = v.listbox
        /\ selected_id' = v.selected_id
        /\ form' = v.form
        /\ conn' = v.conn
        /\ UNCHANGED <<db, seq, output>>

Rejected(op, text) ==
    /\ last' = Event(op, "", Dialog("Error", text, None), "", <<>>)
    /\ UNCHANGED <<db, seq, conn, selected_id, listbox, form, output>>

\* "with self.conn": the tables after the block, which commits what the
\* statements did when it ends normally and rolls back when an exception
\* leaves it.  before: the committed tables; r: the tables the statements
\* reached and the exception raised
\* mutant: the work of the statements that ran is kept when one raises
ConnExitKeepsWork(before, r) == r.db

ConnExit(before, r) == IF r.raised # "" THEN before ELSE r.db

\* a statement inside "with self.conn" raised
RolledBack(op, r, dialog, raised) ==
    /\ db' = ConnExit(db, r)
    /\ conn' = "READY"
    /\ last' = Event(op, "", dialog, raised, r.sql \o <<Rollback>>)
    /\ UNCHANGED <<seq, selected_id, listbox, form, output>>

\* the with block ended normally; the handler then calls refresh and shows
\* dialog
Committed(op, r, dialog) ==
    LET d == ConnExit(db, r)
        v == refresh(d, "READY", selected_id, form)
    IN  /\ db' = d
        /\ listbox' = v.listbox
        /\ selected_id' = v.selected_id
        /\ form' = v.form
        /\ conn' = v.conn
        /\ last' = Event(op, "", dialog, v.raised, r.sql \o <<Commit>> \o v.sql)
        /\ UNCHANGED output

\* one statement on the connection: d2 are the tables it leaves
Execute(c, d, d2, verb, table) ==
    IF c = "INERROR"
    THEN [db |-> d, sql |-> <<Stmt(verb, table, InFailed)>>, raised |-> InFailed]
    ELSE [db |-> d2, sql |-> <<Stmt(verb, table, Ok)>>, raised |-> ""]

Create ==
    LET v == Fields(form)
        err == ValidationError(v)
        r == Execute(conn, db,
                     InsertUser(db, seq, v.username, v.email, v.user_type,
                                v.account_status, The(float(v.rating))),
                     "INSERT", "user_account")
    IN  IF err # ""
        THEN Rejected("create", err)
        ELSE IF r.raised # ""
        THEN RolledBack("create", r, NoDialog, r.raised)
        ELSE /\ seq <= MaxId
             /\ seq' = seq + 1
             /\ Committed("create", r,
                          Dialog("Success", "Created user_id=", Some(seq)))

Update ==
    IF NotSelected(selected_id)
    THEN Rejected("update", "Select a user to update.")
    ELSE LET uid == The(selected_id)
             v == Fields(form)
             err == ValidationError(v)
             r == Execute(conn, db,
                          UpdateUser(db, uid, v.username, v.email, v.user_type,
                                     v.account_status, The(float(v.rating))),
                          "UPDATE", "user_account")
         IN  IF err # ""
             THEN Rejected("update", err)
             ELSE IF r.raised # ""
             THEN RolledBack("update", r, NoDialog, r.raised)
             ELSE /\ UNCHANGED seq
                  /\ Committed("update", r,
                               Dialog("Success", "Updated user_id=", Some(uid)))

(***************************************************************************)
(* delete.  The statements run one after the other on the connection; the  *)
(* first one that raises ends the with block, which rolls back.  A         *)
(* statement raises when the transaction is already aborted or when the    *)
(* server reports an error: fault is the number of the statement (1 the    *)
(* listing lookup, 2..7 the deletes) for which it does, 0 for none.        *)
(* confirm is the answer to askyesno.                                      *)
(***************************************************************************)
DbError == "DatabaseError"

\* the deletes DeleteOrder[i..]: the tables they reach, the statements sent,
\* and the exception of the one that raised ("" if none did)
RECURSIVE RunDeletes(_, _, _, _, _)
RunDeletes(i, d, uid, array, fault) ==
    IF i > Len(DeleteOrder)
    THEN [db |-> d, sql |-> <<>>, raised |-> ""]
    ELSE IF fault = i + 1
    THEN [db |-> d, sql |-> <<Stmt("DELETE", DeleteOrder[i], DbError)>>,
          raised |-> DbError]
    ELSE LET rest == RunDeletes(i + 1, DeleteFrom(DeleteOrder[i], d, uid, array),
                                uid, array, fault)
         IN  [rest EXCEPT !.sql = <<Stmt("DELETE", DeleteOrder[i], Ok)>> \o @]

Cascade(d, c, uid, fault) ==
    IF c = "INERROR"
    THEN [db |-> d, sql |-> <<Stmt("SELECT", "listing", InFailed)>>,
          raised |-> InFailed]
    ELSE IF fault = 1
    THEN [db |-> d, sql |-> <<Stmt("SELECT", "listing", DbError)>>, raised |-> DbError]
    ELSE LET array == ListingArray(SelectListingIds(d, uid))
             rest == RunDeletes(1, d, uid, array, fault)
         IN  [rest EXCEPT !.sql = <<Stmt("SELECT", "listing", Ok)>> \o @]

Faults == 0..(Len(DeleteOrder) + 1)

Delete(confirm, fault) ==
    IF NotSelected(selected_id)
    THEN Rejected("delete", "Select a user to delete.")
    ELSE LET uid == The(selected_id)
             r == Cascade(db, conn, uid, fault)
         IN  IF ~confirm
             THEN /\ last' = Event("delete", "No",
                                   Dialog("Confirm", "Delete user_id=", Some(uid)),
                                   "", <<>>)
                  /\ UNCHANGED <<db, seq, conn, selected_id, listbox, form, output>>
             ELSE IF r.raised # ""
             THEN RolledBack("delete", r, Dialog("Delete failed", r.raised, None), "")
             ELSE /\ UNCHANGED seq
                  /\ Committed("delete", r,
                               Dialog("Deleted", "Deleted user_id=", Some(uid)))

(***************************************************************************)
(* run_query (Deliverable5).  The eight statements are SELECTs; ok tells   *)
(* whether the server answers with rows or with an error.  The cursor is   *)
(* used outside "with self.conn" and the except clause does not roll back. *)
(***************************************************************************)
query_defs ==
    {"union_buyers_sellers", "except_never_bidded", "membership_watch_phones",
     "set_comparison_all", "cte_top_watchers", "agg_percentiles",
     "olap_rollup_revenue_category", "olap_cube_payment_shipping"}

\* mutant: run_query reloads the list after the query, as the writes do
RunQueryThenRefresh(key, ok) ==
    /\ key \in query_defs
    /\ LET fails == conn = "INERROR" \/ ~ok
           v == refresh(db, IF fails THEN "INERROR" ELSE "BEGIN", selected_id, form)
       IN  /\ output' = IF fails THEN "Error" ELSE "Result"
           /\ conn' = v.conn
           /\ listbox' = v.listbox
           /\ selected_id' = v.selected_id
           /\ form' = v.form
           /\ last' = Event("run_query", key, NoDialog, v.raised,
                            <<Stmt("SELECT", "", IF conn = "INERROR" THEN InFailed
                                                 ELSE IF ok THEN Ok ELSE DbError)>>
                                \o v.sql)
    /\ UNCHANGED <<db, seq>>

RunQuery(key, ok) ==
    /\ key \in query_defs
    /\ LET fails == conn = "INERROR" \/ ~ok
       IN  /\ output' = IF fails THEN "Error" ELSE "Result"
           /\ conn' = IF fails THEN "INERROR" ELSE "BEGIN"
           /\ last' = Event("run_query", key, NoDialog, "",
                            <<Stmt("SELECT", "", IF conn = "INERROR" THEN InFailed
                                                 ELSE IF ok THEN Ok ELSE DbError)>>)
    /\ UNCHANGED <<db, seq, selected_id, listbox, form>>

(***************************************************************************)
(* What the user types into the form: one valid form and the forms that    *)
(* differ from it in one field, plus the form with the three optional      *)
(* fields left blank.                                                      *)
(***************************************************************************)
ValidForm ==
    [username |-> <<" ", "a", "l", " ">>, email |-> <<"a", "@", "x">>,
     user_type |-> Seller, account_status |-> Closed,
     rating |-> <<"5", ".", "0">>]

\* the three optional fields left blank (empty, or whitespace only)
BlankForm ==
    [ValidForm EXCEPT !.user_type = <<>>, !.account_status = <<" ">>,
                      !.rating = <<" ">>]

UsernameInputs == {<<" ">>}

EmailInputs == {<<>>}

UserTypeInputs == {<<"a", "d", "m", "i", "n">>}

AccountStatusInputs == {<<"g", "o", "n", "e">>}

RatingInputs == {<<"x">>, <<"5", ".", "1">>, <<"-", "1">>, <<"n", "a", "n">>}

FormInputs ==
    {ValidForm, BlankForm}
        \cup {[ValidForm EXCEPT !.username = t] : t \in UsernameInputs}
        \cup {[ValidForm EXCEPT !.email = t] : t \in EmailInputs}
        \cup {[ValidForm EXCEPT !.user_type = t] : t \in UserTypeInputs}
        \cup {[ValidForm EXCEPT !.account_status = t] : t \in AccountStatusInputs}
        \cup {[ValidForm EXCEPT !.rating = t] : t \in RatingInputs}

\* the user replaces the contents of the Entry widgets
TypeForm(f) ==
    /\ f \in FormInputs
    /\ form' = f
    /\ last' = Event("type", "", NoDialog, "", <<>>)
    /\ UNCHANGED <<db, seq, conn, selected_id, listbox, output>>

(***************************************************************************)
(* Initial databases.                                                      *)
(***************************************************************************)
\* the username holds the brackets of the list line and a digit
InitUser(i) ==
    [user_id |-> i, username |-> <<"]", "[", DigitChar(i + 1), "]">>,
     email |-> <<"e", DigitChar(i)>>,
     user_type |-> IF i % 2 = 1 THEN Both ELSE Buyer,
     account_status |-> Suspended, rating |-> Normal(45, 1)]

InitUserIds == 1..InitUsers

\* user 1 sells listing 1; the last user bids on it, watches it, buys it and
\* leaves feedback
SeedDb ==
    [user_account |-> {InitUser(i) : i \in InitUserIds},
     listing |-> {[listing_id |-> 1, seller_id |-> 1]},
     transaction |-> {[transaction_id |-> 1, buyer_id |-> InitUsers,
                       seller_id |-> 1, listing_id |-> 1]},
     feedback |-> {[feedback_id |-> 1, author_user_id |-> InitUsers,
                    target_user_id |-> 1, transaction_id |-> 1]},
     bid |-> {[bid_id |-> 1, user_id |-> InitUsers, listing_id |-> 1]},
     user_listing_watch |-> {[user_id |-> InitUsers, listing_id |-> 1]}]

\* __init__: selected_id = None, the widgets are built, refresh() runs
Constructed(d, s) ==
    LET r == refresh(d, "READY", None, ClearForm)
    IN  /\ db = d
        /\ seq = s
        /\ conn = r.conn
        /\ selected_id = r.selected_id
        /\ listbox = r.listbox
        /\ form = r.form
        /\ output = ""
        /\ last = Event("init", "", NoDialog, "", r.sql)

Init == Constructed(SeedDb, InitUsers + 1)

Next ==
    \/ Refresh
    \/ \E sel \in 0..Len(listbox) : OnSelect(sel)
    \/ \E f \in FormInputs : TypeForm(f)
    \/ Create
    \/ Update
    \/ \E confirm \in BOOLEAN, fault \in Faults : Delete(confirm, fault)
    \/ \E key \in query_defs, ok \in BOOLEAN : RunQuery(key, ok)

Spec == Init /\ [][Next]_vars

(***************************************************************************)
(* SpecCascade: the application started on any database of MaxId users     *)
(* that satisfies the foreign keys, within MaxListing and MaxRows; the     *)
(* user selects, deletes and refreshes.                                    *)
(***************************************************************************)
\* the sets of at most n elements of S
RECURSIVE UpTo(_, _)
UpTo(S, n) ==
    IF n = 0 THEN {{}}
    ELSE LET P == UpTo(S, n - 1) IN P \cup {p \cup {r} : p \in P, r \in S}

CascadeUserIds == 1..MaxId

ListingTables ==
    {t \in UpTo([listing_id : 1..MaxListing, seller_id : CascadeUserIds], MaxListing) :
        \A l, m \in t : l.listing_id = m.listing_id => l = m}

TransactionTables(ls) ==
    {t \in UpTo([transaction_id : 1..MaxRows, buyer_id : CascadeUserIds,
                 seller_id : CascadeUserIds,
                 listing_id : {l.listing_id : l \in ls}], MaxRows) :
        \A x, y \in t : x.transaction_id = y.transaction_id => x = y}

FeedbackTables(ts) ==
    {t \in UpTo([feedback_id : 1..MaxRows, author_user_id : CascadeUserIds,
                 target_user_id : CascadeUserIds,
                 transaction_id : {x.transaction_id : x \in ts}], MaxRows) :
        \A x, y \in t : x.feedback_id = y.feedback_id => x = y}

BidTables(ls) ==
    {t \in UpTo([bid_id : 1..MaxRows, user_id : CascadeUserIds,
                 listing_id : {l.listing_id : l \in ls}], MaxRows) :
        \A x, y \in t : x.bid_id = y.bid_id => x = y}

WatchTables(ls) ==
    UpTo([user_id : CascadeUserIds, listing_id : {l.listing_id : l \in ls}], MaxRows)

InitCascade ==
    \E ls \in ListingTables :
        \E ts \in TransactionTables(ls), bs \in BidTables(ls), ws \in WatchTables(ls) :
            \E fs \in FeedbackTables(ts) :
                Constructed([user_account |-> {InitUser(i) : i \in CascadeUserIds},
                             listing |-> ls, transaction |-> ts, feedback |-> fs,
                             bid |-> bs, user_listing_watch |-> ws],
                            MaxId + 1)

NextCascade ==
    \/ Refresh
    \/ \E sel \in 0..Len(listbox) : OnSelect(sel)
    \/ \E confirm \in BOOLEAN, fault \in Faults : Delete(confirm, fault)

SpecCascade == InitCascade /\ [][NextCascade]_vars

(***************************************************************************)
(* SpecSelect: on_select as a function of the selected line.  The list     *)
(* starts with lines refresh never renders next to one it does; the user   *)
(* selects, types and refreshes.                                           *)
(***************************************************************************)
SelectLines ==
    {Display(InitUser(1)), <<>>, <<"x">>, <<"[", "]">>, <<"[", "a", "]", " ", "1">>,
     <<"]", "1">>, <<"[", "1", " ", "2", "]">>}

InitSelect ==
    /\ db = SeedDb
    /\ seq = InitUsers + 1
    /\ conn = "BEGIN"
    /\ selected_id = None
    /\ listbox \in [1..2 -> SelectLines]
    /\ form = ClearForm
    /\ output = ""
    /\ last = Event("init", "", NoDialog, "", <<SelectUsers(Ok)>>)

NextSelect ==
    \/ Refresh
    \/ \E sel \in 0..Len(listbox) : OnSelect(sel)
    \/ \E f \in FormInputs : TypeForm(f)

SpecSelect == InitSelect /\ [][NextSelect]_vars

(***************************************************************************)
(* Claims.  A claim about what a handler does is an action property: it    *)
(* relates the state in which the handler is invoked (unprimed) to the     *)
(* state it leaves (primed), and last' tells which handler the step was.   *)
(***************************************************************************)
Dependents == {"feedback", "transaction", "bid", "user_listing_watch"}

\* the listings user U owns in tables d
OwnedBy(d, U) == {l.listing_id : l \in {m \in d.listing : m.seller_id = U}}

\* no row of tables d names user U or one of the listings L
NoReference(d, U, L) ==
    /\ \A f \in d.feedback : f.author_user_id # U /\ f.target_user_id # U
    /\ \A t \in d.transaction :
          t.buyer_id # U /\ t.seller_id # U /\ t.listing_id \notin L
    /\ \A b \in d.bid : b.user_id # U /\ b.listing_id \notin L
    /\ \A w \in d.user_listing_watch : w.user_id # U /\ w.listing_id \notin L
    /\ \A l \in d.listing : l.seller_id # U /\ l.listing_id \notin L
    /\ \A u \in d.user_account : u.user_id # U

\* the step is a delete that ended with the "Deleted" dialog
DeletedStep == last'.op = "delete" /\ last'.dialog.title = "Deleted"

\* C1: after a successful delete of user U on a database that satisfied the
\* foreign keys, no row of feedback, transaction, bid or user_listing_watch
\* names U or a listing U owned before the delete, no listing has seller U,
\* U's user_account row is gone, and the foreign keys still hold.
C1_DeleteLeavesNoReference ==
    [][(RefIntegrity(db) /\ DeletedStep)
          => /\ NoReference(db', The(selected_id), OwnedBy(db, The(selected_id)))
             /\ RefIntegrity(db')]_vars

\* C1 witness: a delete succeeded, and rows of other users are still there
C1_Witness ==
    /\ last.op = "delete"
    /\ last.dialog.title = "Deleted"
    /\ Cardinality(db.user_account) = MaxId - 1
    /\ db.listing # {}
    /\ db.bid # {}

\* the statements a handler sent, and whether one of them raised
Sent(q, verb) == {i \in 1..Len(q) : q[i][1] = verb}

SomeFailed(q) == \E i \in 1..Len(q) : q[i][3] # Ok

\* C2: delete is atomic.  If the listing lookup or one of the six deletes
\* raises, nothing is committed, every table has the contents it had before
\* delete was invoked, and the dialog shown is "Delete failed", not "Deleted".
C2_DeleteAtomic ==
    [][(last'.op = "delete" /\ SomeFailed(last'.sql))
          => /\ db' = db
             /\ Sent(last'.sql, "COMMIT") = {}
             /\ last'.dialog.title = "Delete failed"]_vars

\* C2 witness: the last of the seven statements raised after the six before it
\* ran, on a database with rows in every table
C2_Witness ==
    /\ last.op = "delete"
    /\ Len(last.sql) = 8
    /\ last.sql[7] = Stmt("DELETE", "user_account", DbError)
    /\ last.dialog.title = "Delete failed"
    /\ \A t \in Dependents \cup {"listing", "user_account"} : db[t] # {}

\* C6: every delete that reaches the database sends the listing lookup and
\* then the deletes in the order feedback, transaction, bid,
\* user_listing_watch, listing, user_account, with no commit or rollback
\* between them; the commit comes only after the delete of user_account ran.
C6_DeleteOrder ==
    [][(last'.op = "delete" /\ last'.sql # <<>>)
          => LET q == last'.sql
                 order == <<"feedback", "transaction", "bid", "user_listing_watch",
                            "listing", "user_account">>
                 ends == Sent(q, "COMMIT") \cup Sent(q, "ROLLBACK")
             IN  /\ q[1][1] = "SELECT" /\ q[1][2] = "listing"
                 /\ \A i \in Sent(q, "DELETE") :
                       /\ 2 <= i /\ i <= 7
                       /\ q[i][2] = order[i - 1]
                       /\ \A j \in 2..(i - 1) : q[j] = Stmt("DELETE", order[j - 1], Ok)
                 /\ Cardinality(ends) = 1
                 /\ \A e \in ends : \A i \in Sent(q, "DELETE") : i < e
                 /\ \A e \in Sent(q, "COMMIT") :
                       e = 8 /\ q[7] = Stmt("DELETE", "user_account", Ok)]_vars

\* C6 witness: a delete that sent all seven statements and committed
C6_Witness ==
    /\ last.op = "delete"
    /\ Len(last.sql) = 9
    /\ last.sql[8] = Commit
    /\ last.dialog.title = "Deleted"

\* C5: a create, update or delete that ends with a validation error dialog
\* changes nothing: the tables, selected_id, the list and the form are as
\* before, nothing is sent to the database and no refresh happens.
C5_RejectedNoEffect ==
    [][(last'.op \in {"create", "update", "delete"} /\ last'.dialog.title = "Error")
          => /\ UNCHANGED <<db, seq, conn, selected_id, listbox, form, output>>
             /\ last'.sql = <<>>
             /\ last'.raised = ""]_vars

\* C5 witness: an update was rejected while a row was selected and the form
\* was filled
C5_Witness ==
    /\ last.op = "update"
    /\ last.dialog.title = "Error"
    /\ last.dialog.text = "Rating must be between 0 and 5."
    /\ selected_id # None
    /\ form # ClearForm

\* the step is a create or an update
WriteStep == last'.op \in {"create", "update"}

\* the step ended with a validation error dialog and sent nothing
RejectedStep == last'.dialog.title = "Error" /\ last'.sql = <<>>

\* a rating input that is not numeric or lies outside [0,5]
BadRating(t) ==
    \/ float(Str(t)) = None
    \/ ~(\E v \in float(Str(t)) : v.kind = "num" /\ 0 <= v.m /\ v.m <= 5 * Pow10(v.k))

Blank(t) == \A i \in 1..Len(t) : t[i] = " "

\* C3 as stated: for every rating input outside [0,5] or not numeric, create
\* and update are rejected and no row is written or changed.
C3_Original ==
    [][(WriteStep /\ BadRating(form.rating)) => (RejectedStep /\ db' = db)]_vars

\* C3 amended: for every rating input that is not blank and is not numeric or
\* lies outside [0,5], create and update are rejected and no row is written
\* or changed.  (A blank rating is replaced by 0 and accepted.)
C3_BadRatingRejected ==
    [][(WriteStep /\ ~Blank(form.rating) /\ BadRating(form.rating))
          => (RejectedStep /\ db' = db)]_vars

\* C3 witness: a create was rejected for a rating float accepts (nan) and the
\* range check refuses
C3_Witness ==
    /\ last.op = "create"
    /\ last.dialog.text = "Rating must be between 0 and 5."
    /\ form.rating = <<"n", "a", "n">>

\* C4 as stated: for every user_type outside {buyer, seller, both} and every
\* account_status outside {active, suspended, closed} in the form, create and
\* update are rejected and send no statement.
C4_Original ==
    [][(WriteStep /\ (\/ strip(form.user_type) \notin {Buyer, Seller, Both}
                      \/ strip(form.account_status) \notin {Active, Suspended, Closed}))
          => RejectedStep]_vars

\* C4 amended: for every user_type that is not blank and, trimmed, outside
\* {buyer, seller, both}, and every account_status that is not blank and,
\* trimmed, outside {active, suspended, closed}, create and update are
\* rejected and send no statement.  (A blank field is replaced by its default.)
C4_BadEnumRejected ==
    [][(WriteStep /\ (\/ /\ ~Blank(form.user_type)
                         /\ strip(form.user_type) \notin {Buyer, Seller, Both}
                      \/ /\ ~Blank(form.account_status)
                         /\ strip(form.account_status) \notin {Active, Suspended, Closed}))
          => RejectedStep]_vars

\* C4 witness: an update of a selected row was rejected for its account_status
C4_Witness ==
    /\ last.op = "update"
    /\ last.dialog.text = "Status must be active, suspended, or closed."
    /\ selected_id # None
    /\ form.account_status = <<"g", "o", "n", "e">>

\* the form holds what C7 calls valid input
ValidInput(f) ==
    /\ ~Blank(f.username) /\ ~Blank(f.email)
    /\ strip(f.user_type) \in {Buyer, Seller, Both}
    /\ strip(f.account_status) \in {Active, Suspended, Closed}
    /\ ~Blank(f.rating) /\ ~BadRating(f.rating)

\* row r carries the trimmed values of form f
Carries(r, f) ==
    /\ r.username = strip(f.username)
    /\ r.email = strip(f.email)
    /\ r.user_type = strip(f.user_type)
    /\ r.account_status = strip(f.account_status)
    /\ {r.rating} = float(Str(f.rating))

\* create added exactly one row, which carries the form, and the refreshed
\* list shows it
CreatedFrom(f) ==
    \E r \in db'.user_account :
        /\ r \notin db.user_account
        /\ db'.user_account = db.user_account \cup {r}
        /\ Carries(r, f)
        /\ \A t \in Dependents \cup {"listing"} : db'[t] = db[t]
        /\ \E i \in 1..Len(listbox') : listbox'[i] = Display(r)

\* C7: create with valid input succeeds from any reachable state: it adds
\* exactly one user_account row carrying the trimmed form values, changes no
\* other row, and the list shown by the refresh that follows has the new row.
C7_CreateSucceeds ==
    [][(last'.op = "create" /\ ValidInput(form)) => CreatedFrom(form)]_vars

\* C8: a successful update with selected id S changes only the row whose
\* user_id is S: its user_id, every other user_account row, the number of
\* rows and all other tables are unchanged.
C8_UpdateFrame ==
    [][(last'.op = "update" /\ last'.dialog.title = "Success")
          => LET S == The(selected_id)
             IN  /\ {u \in db'.user_account : u.user_id # S}
                       = {u \in db.user_account : u.user_id # S}
                 /\ UserIds(db') = UserIds(db)
                 /\ Cardinality(db'.user_account) = Cardinality(db.user_account)
                 /\ \A t \in Dependents \cup {"listing"} : db'[t] = db[t]
                 /\ seq' = seq]_vars

\* C8 witness: an update succeeded on a table of two rows that differ
C8_Witness ==
    /\ last.op = "update"
    /\ last.dialog.title = "Success"
    /\ \E u, v \in db.user_account : u.user_id # v.user_id /\ u.username # v.username

\* C9: selecting the line refresh rendered for a row of user_account stores
\* that row's user_id in selected_id and fills the five form fields with the
\* row's values.
C9_SelectRecoversRow ==
    [][(last'.op = "on_select" /\ last'.arg # 0)
          => \A r \in db.user_account :
                listbox[last'.arg] = Display(r)
                   => selected_id' = Some(r.user_id) /\ form' = FormOf(r)]_vars

\* C10: when no integer can be parsed from the text before the first "]" of
\* the selected line, on_select is ignored: selected_id is None afterwards,
\* the form is unchanged, no query is sent and no dialog is shown.
C10_MalformedIgnored ==
    [][(/\ last'.op = "on_select"
        /\ last'.arg # 0
        /\ int(StripChars(SplitFirst(listbox[last'.arg], "]"), {"["})) = None)
          => /\ selected_id' = None
             /\ UNCHANGED <<db, seq, conn, listbox, form, output>>
             /\ last'.sql = <<>>
             /\ last'.dialog = NoDialog
             /\ last'.raised = ""]_vars

\* C10 witness: a line with no integer before its "]" was selected while the
\* form was filled
C10_Witness ==
    /\ last.op = "on_select"
    /\ last.arg # 0
    /\ ParseId(listbox[last.arg]) = None
    /\ listbox[last.arg] # <<>>
    /\ form # ClearForm
    /\ selected_id = None

\* the step is a run_query; its statement raised or returned rows
QueryStep == last'.op = "run_query"

QueryFailed(e) == e.op = "run_query" /\ e.sql[1][3] # Ok

\* C11: run_query is read-only.  Whether the query returns rows or fails, the
\* step leaves every table, the id sequence, selected_id, the list and the
\* form unchanged and writes only the output area: the rows on success, an
\* error line on failure.  The key it ran is one of the eight definitions.
C11_RunQueryReadOnly ==
    [][QueryStep
          => /\ UNCHANGED <<db, seq, selected_id, listbox, form>>
             /\ output' = (IF QueryFailed(last') THEN "Error" ELSE "Result")
             /\ last'.dialog = NoDialog
             /\ last'.arg \in query_defs
             /\ Cardinality(query_defs) = 8]_vars

\* C11 witness: a query failed while a row was selected and shown in the form
C11_Witness ==
    /\ QueryFailed(last)
    /\ output = "Error"
    /\ selected_id # None
    /\ form # ClearForm
    /\ listbox # <<>>

\* the step ran refresh: the Refresh command itself, or a create, update or
\* delete whose with block committed
RefreshStep ==
    \/ last'.op = "refresh"
    \/ last'.op \in {"create", "update", "delete"} /\ Sent(last'.sql, "COMMIT") # {}

\* the lines are those of the rows of table t, one line per row, by strictly
\* ascending user_id
ShowsExactly(lines, t) ==
    /\ Len(lines) = Cardinality(t)
    /\ \E f \in [1..Len(lines) -> t] :
          /\ \A i, j \in 1..Len(lines) : i < j => f[i].user_id < f[j].user_id
          /\ \A i \in 1..Len(lines) : lines[i] = Display(f[i])

\* C12: every refresh leaves the list showing exactly the rows that are in
\* user_account, one line per row, ordered by strictly ascending user_id.
C12_RefreshShowsRows ==
    [][RefreshStep => ShowsExactly(listbox', db'.user_account)]_vars

\* the tables after the first n deletes of the cascade for user uid on tables d
AfterDeletes(n, d, uid) ==
    RunDeletes(1, d, uid, ListingArray(SelectListingIds(d, uid)),
               IF n = Len(DeleteOrder) THEN 0 ELSE n + 2).db

\* the deletes of the step that ran without raising
DeletesRun(q) == {i \in Sent(q, "DELETE") : q[i][3] = Ok}

\* C13: the delete order is foreign-key safe at every intermediate step.  On
\* a database that satisfies the foreign keys, the tables left by each delete
\* statement that a delete ran satisfy them too: no remaining row references
\* a row that statement removed.
C13_DeleteOrderKeySafe ==
    [][(last'.op = "delete" /\ last'.sql # <<>> /\ RefIntegrity(db))
          => \A n \in 0..Cardinality(DeletesRun(last'.sql)) :
                RefIntegrity(AfterDeletes(n, db, The(selected_id)))]_vars

\* C13 witness: a delete ran all six statements and committed, and rows of
\* the other user remain in feedback, transaction and listing
C13_Witness ==
    /\ last.op = "delete"
    /\ Cardinality(DeletesRun(last.sql)) = Len(DeleteOrder)
    /\ Sent(last.sql, "COMMIT") # {}
    /\ db.feedback # {}
    /\ db.transaction # {}
    /\ db.listing # {}

\* what a handler leaves: the tables, the list and selected_id
Outcome(d, lines, sel) == [db |-> d, listbox |-> lines, selected_id |-> sel]

\* the outcome of a write (create, update, delete) on a connection that is
\* not aborted: d are the tables its with block commits
Written(d) == Outcome(d, Render(d), None)

Untouched == Outcome(db, listbox, selected_id)

\* the outcomes a handler has in the current state when no query has aborted
\* the transaction; arg is the selected index of on_select
Undisturbed(op, arg) ==
    LET v == Fields(form)
        valid == ValidationError(v) = ""
        uid == The(selected_id)
    IN  CASE op = "refresh" -> {Outcome(db, Render(db), None)}
          [] op = "on_select" ->
                {IF arg = 0 THEN Untouched
                 ELSE Outcome(db, listbox, ParseId(listbox[arg]))}
          [] op = "create" ->
                {IF ~valid THEN Untouched
                 ELSE Written(InsertUser(db, seq, v.username, v.email, v.user_type,
                                         v.account_status, The(float(v.rating))))}
          [] op = "update" ->
                {IF NotSelected(selected_id) \/ ~valid THEN Untouched
                 ELSE Written(UpdateUser(db, uid, v.username, v.email, v.user_type,
                                         v.account_status, The(float(v.rating))))}
          [] op = "delete" ->
                IF NotSelected(selected_id) THEN {Untouched}
                ELSE {Untouched}
                       \cup {Written(AfterDeletes(Len(DeleteOrder), db, uid))}

\* C14: a canned query that fails does not disturb the operation invoked
\* right after it: the refresh, selection, create, update or delete has the
\* database effect, the list and the selected_id it would have had if the
\* query had not been run (for delete: one of the outcomes it could have had,
\* carried out or not).
C14_FailedQueryHarmless ==
    [][(/\ last.op = "run_query"
        /\ last.sql[1][3] = DbError
        /\ last'.op \in {"refresh", "on_select", "create", "update", "delete"})
          => Outcome(db', listbox', selected_id') \in Undisturbed(last'.op, last'.arg)]_vars

\* selected_id, when set, is the user_id of a row of user_account
SelectedExists == selected_id # None => The(selected_id) \in UserIds(db)

\* the handler showed the dialog of a write that was carried out
Succeeded(e) ==
    /\ e.op \in {"create", "update", "delete"}
    /\ e.dialog.title \in {"Success", "Deleted"}

\* C15: in every reachable state, selected_id is None or the user_id of a row
\* that exists in user_account; every successful create, update and delete
\* ends with selected_id = None and an empty form; and an update or delete
\* invoked right after one, without a new selection, is rejected and changes
\* nothing.
C15_SelectionValid ==
    /\ []SelectedExists
    /\ [][Succeeded(last') => (selected_id' = None /\ form' = ClearForm)]_vars
    /\ [][(Succeeded(last) /\ last'.op \in {"update", "delete"})
             => (last'.dialog.title = "Error" /\ last'.sql = <<>> /\ db' = db)]_vars

\* C15 witness: the first user was deleted while a second one, created
\* before, remains; nothing is selected and the form is empty
C15_Witness ==
    /\ last.op = "delete"
    /\ last.dialog.title = "Deleted"
    /\ UserIds(db) = {InitUsers + 1}
    /\ selected_id = None
    /\ form = ClearForm

\* the rows of table t that the step removed
Removed(t) == db[t] \ db'[t]

\* C16: a successful delete of user U removes only rows tied to U.  No table
\* gains a row; every user_account row other than U's and every listing whose
\* seller is not U stay; a transaction, bid or user_listing_watch row is
\* removed only if it names U or a listing U owned; a feedback row only if it
\* names U or a transaction that was removed.
C16_DeleteFrame ==
    [][DeletedStep
          => LET U == The(selected_id)
                 L == OwnedBy(db, U)
             IN  /\ \A t \in Dependents \cup {"listing", "user_account"} :
                       db'[t] \subseteq db[t]
                 /\ \A u \in Removed("user_account") : u.user_id = U
                 /\ \A l \in Removed("listing") : l.seller_id = U
                 /\ \A t \in Removed("transaction") :
                       t.buyer_id = U \/ t.seller_id = U \/ t.listing_id \in L
                 /\ \A b \in Removed("bid") : b.user_id = U \/ b.listing_id \in L
                 /\ \A w \in Removed("user_listing_watch") :
                       w.user_id = U \/ w.listing_id \in L
                 /\ \A f \in Removed("feedback") :
                       \/ f.author_user_id = U
                       \/ f.target_user_id = U
                       \/ \E t \in Removed("transaction") :
                             t.transaction_id = f.transaction_id
                 /\ seq' = seq]_vars

\* C16 witness: a delete succeeded and every table still holds a row of the
\* other user
C16_Witness ==
    /\ last.op = "delete"
    /\ last.dialog.title = "Deleted"
    /\ \A t \in Dependents \cup {"listing", "user_account"} : db[t] # {}

\* the form has a username and an email and leaves the three other fields
\* blank; an update also has a row selected
BlankOptional(op, f, sel) ==
    /\ ~Blank(f.username) /\ ~Blank(f.email)
    /\ Blank(f.user_type) /\ Blank(f.account_status) /\ Blank(f.rating)
    /\ op = "update" => ~NotSelected(sel)

\* row r carries the defaults and the trimmed username and email of form f
CarriesDefaults(r, f) ==
    /\ r.username = strip(f.username)
    /\ r.email = strip(f.email)
    /\ r.user_type = Buyer
    /\ r.account_status = Active
    /\ r.rating = Normal(0, 0)

\* C17: a create or update whose form has a username and an email and leaves
\* user_type, account_status and rating blank is accepted, and writes the row
\* with user_type buyer, account_status active and rating 0: create adds
\* such a row, update leaves the selected row so.
C17_BlankDefaults ==
    [][(WriteStep /\ BlankOptional(last'.op, form, selected_id))
          => /\ last'.dialog.title = "Success"
             /\ IF last'.op = "create"
                THEN \E r \in db'.user_account \ db.user_account :
                        CarriesDefaults(r, form)
                ELSE \E r \in db'.user_account :
                        r.user_id = The(selected_id) /\ CarriesDefaults(r, form)]_vars

====
